---- MODULE Spec2Model ----
(***************************************************************************)
(* The Flask backend of PyWebIO (src/pywebio/platform/flask.py): the       *)
(* session registry _webio_sessions, the expiry tracker _webio_expire, the *)
(* last-sweep timestamp and the request handler _webio_view.               *)
(*                                                                         *)
(* Specification Spec handles requests one at a time: one step is one call *)
(* of _webio_view, run to completion (it returns or raises).               *)
(***************************************************************************)
EXTENDS Integers, Sequences, FiniteSets, TLC

(* flask.py:39-40 *)
REMOVE_EXPIRED_SESSIONS_INTERVAL == 120

(* Bound of the model: how many requests a behaviour handles. *)
MaxRequests == 3

(* Values random_str(24) may return; "" is never one of them. *)
IdOrder == <<"s1", "s2", "s3">>
Ids == {IdOrder[i] : i \in DOMAIN IdOrder}

(* A header or a query argument: absent, or present with a string value. *)
Absent == [present |-> FALSE, value |-> ""]
Present(v) == [present |-> TRUE, value |-> v]

TestArgs == {Absent, Present(""), Present("1")}
Methods == {"GET", "POST"}
Payloads == {"click"}
NoPayload == "null"

(* What one pull (get_task_messages) may return. *)
MessageLists == {<<>>, <<[command |-> "output"]>>}

(* The values of session_expire_seconds the server may be started with:    *)
(* a budget shorter and a budget longer than the sweep interval.           *)
Budgets == {1, REMOVE_EXPIRED_SESSIONS_INTERVAL + 1}

(* Seconds that pass between two requests, and between two consecutive     *)
(* reads of the clock inside one request.                                  *)
Gaps == {0, REMOVE_EXPIRED_SESSIONS_INTERVAL}
Ticks == {0, 1}

VARIABLES
    webio_sessions,                 \* _webio_sessions: sid -> Session object
    webio_expire,                   \* _webio_expire: records <<sid, ts>>, least recently active first
    last_check_session_expire_ts,   \* _last_check_session_expire_ts
    session_expire_seconds,         \* the budget the view was built with
    now,                            \* the last value time.time() returned
    nreq,                           \* requests handled so far
    last_active,                    \* sid -> arrival time of the latest request served for it
    log                             \* what the latest request did

vars == <<webio_sessions, webio_expire, last_check_session_expire_ts,
          session_expire_seconds, now, nreq, last_active, log>>

----------------------------------------------------------------------------
(* dict *)

EmptyDict == [x \in {} |-> 0]
DictSet(d, k, v) == [x \in DOMAIN d \cup {k} |-> IF x = k THEN v ELSE d[x]]
DictDel(d, k) == [x \in DOMAIN d \ {k} |-> d[x]]

(* OrderedDict / LRUDict as a sequence of records, front = least recent. *)
Keys(e) == {e[i].sid : i \in DOMAIN e}
Without(e, k) == SelectSeq(e, LAMBDA r : r.sid # k)
Lookup(e, k) == (CHOOSE i \in DOMAIN e : e[i].sid = k)

(* OrderedDict.__setitem__: a key that is present keeps its place. *)
DictStore(e, k, v) ==
    IF k \in Keys(e)
    THEN [i \in DOMAIN e |-> IF e[i].sid = k THEN [sid |-> k, ts |-> v] ELSE e[i]]
    ELSE Append(e, [sid |-> k, ts |-> v])

(* OrderedDict.move_to_end(k) *)
MoveToEnd(e, k) == Append(Without(e, k), e[Lookup(e, k)])

(* LRUDict.__setitem__: store the value, then move the key to the end. *)
LRUSet(e, k, v) == MoveToEnd(DictStore(e, k, v), k)

(* OrderedDict.move_to_end(k, last=False) *)
MoveToFront(e, k) == <<e[Lookup(e, k)]>> \o Without(e, k)

----------------------------------------------------------------------------
(* request.args.get('test') and the header test of _webio_view *)

Truthy(a) == a.present /\ a.value # ""

(* The probe answered to a GET only. *)
IsProbe_get_only(req) == Truthy(req.test) /\ req.method = "GET"

IsProbe(req) == Truthy(req.test)

StartsNewSession(req) == ~req.header.present \/ req.header.value = ""

----------------------------------------------------------------------------
(* _remove_expired_sessions, flask.py:49-56.  Every pass of the loop reads  *)
(* the clock once; tick is what the clock advances before each read.       *)
(* inspected lists the records popped, with the time read for each and     *)
(* whether the record was removed; raised is the KeyError of line 56.      *)

(* The test of line 52 with <= for <. *)
Expired_late(t, active_ts, budget) == ~(t - active_ts <= budget)

(* line 52: the record is kept when time.time() - active_ts < budget *)
Expired(t, active_ts, budget) == ~(t - active_ts < budget)

(* Lines 53-54 without the move_to_end of line 54: the record stays where  *)
(* LRUDict puts it, at the most recently active end.                       *)
Reinsert_at_end(popped, rec) == LRUSet(popped, rec.sid, rec.ts)

Reinsert(popped, rec) == MoveToFront(LRUSet(popped, rec.sid, rec.ts), rec.sid)

(* The loop without its break: a record that is kept does not stop the     *)
(* scan, which goes through the whole tracker.                             *)
RECURSIVE remove_expired_sessions_scans_all(_, _, _, _, _)
remove_expired_sessions_scans_all(sessions, expire, budget, clock, tick) ==
    IF expire = <<>>
    THEN [sessions |-> sessions, expire |-> expire, clock |-> clock,
          raised |-> FALSE, inspected |-> <<>>]
    ELSE LET rec == Head(expire)
             t == clock + tick
             gone == Expired(t, rec.ts, budget) /\ rec.sid \in DOMAIN sessions
             rest == remove_expired_sessions_scans_all(
                         IF gone THEN DictDel(sessions, rec.sid) ELSE sessions,
                         Tail(expire), budget, t, tick)
         IN  [rest EXCEPT
                 !.expire = IF gone THEN @ ELSE <<rec>> \o @,
                 !.inspected = <<[sid |-> rec.sid, ts |-> rec.ts, at |-> t,
                                  removed |-> gone]>> \o @]

RECURSIVE remove_expired_sessions(_, _, _, _, _)
remove_expired_sessions(sessions, expire, budget, clock, tick) ==
    IF expire = <<>>
    THEN [sessions |-> sessions, expire |-> expire, clock |-> clock,
          raised |-> FALSE, inspected |-> <<>>]
    ELSE LET rec == Head(expire)
             popped == Tail(expire)
             t == clock + tick
             seen == [sid |-> rec.sid, ts |-> rec.ts, at |-> t]
         IN  IF ~Expired(t, rec.ts, budget)
             THEN [sessions |-> sessions, expire |-> Reinsert(popped, rec),
                   clock |-> t, raised |-> FALSE,
                   inspected |-> <<seen @@ [removed |-> FALSE]>>]
             ELSE IF rec.sid \notin DOMAIN sessions
                  THEN [sessions |-> sessions, expire |-> popped, clock |-> t,
                        raised |-> TRUE,
                        inspected |-> <<seen @@ [removed |-> FALSE]>>]
                  ELSE LET rest == remove_expired_sessions(
                                       DictDel(sessions, rec.sid), popped,
                                       budget, t, tick)
                       IN  [rest EXCEPT !.inspected =
                                <<seen @@ [removed |-> TRUE]>> \o @]

(* _remove_webio_session without its second del. *)
remove_webio_session_registry_only(sessions, expire, sid) ==
    IF sid \notin DOMAIN sessions
    THEN [sessions |-> sessions, expire |-> expire, raised |-> TRUE]
    ELSE [sessions |-> DictDel(sessions, sid), expire |-> expire, raised |-> FALSE]

(* _remove_webio_session, flask.py:62-64: two del statements, each raising *)
(* KeyError when the key is absent.                                        *)
remove_webio_session(sessions, expire, sid) ==
    IF sid \notin DOMAIN sessions
    THEN [sessions |-> sessions, expire |-> expire, raised |-> TRUE]
    ELSE IF sid \notin Keys(expire)
         THEN [sessions |-> DictDel(sessions, sid), expire |-> expire,
               raised |-> TRUE]
         ELSE [sessions |-> DictDel(sessions, sid),
               expire |-> Without(expire, sid), raised |-> FALSE]

----------------------------------------------------------------------------
(* _webio_view, flask.py:67-113, as four stages over the frame of one call. *)
(* A frame whose result is not "running" has returned or raised and passes *)
(* through the later stages unchanged.                                     *)

NoSweep == [ran |-> FALSE, at |-> 0, before |-> <<>>, inspected |-> <<>>,
            after |-> <<>>, sessions |-> [x \in {} |-> 0]]
NotCreated == [sessions |-> [x \in {} |-> 0], expire |-> <<>>]

Frame(sessions, expire, last_check, clock) ==
    [sessions |-> sessions, expire |-> expire, last_check |-> last_check,
     clock |-> clock, arrival |-> clock, branch |-> "none", sid |-> "",
     obj |-> 0, set_header |-> FALSE, ops |-> <<>>, pushed |-> <<>>,
     created |-> NotCreated, sweep |-> NoSweep, result |-> "running",
     body |-> <<>>, header |-> Absent, closed |-> FALSE]

CloseSessionBody == <<[command |-> "close_session"]>>

(* Registration that puts the new record at the least recently active end *)
(* of the tracker.                                                         *)
register_session_in_front(f, sid, obj) ==
    [f EXCEPT !.sessions = DictSet(f.sessions, sid, obj),
              !.expire = MoveToFront(LRUSet(f.expire, sid, f.clock), sid)]

(* Registration that rebinds the registry to the new entry alone. *)
register_session_alone(f, sid, obj) ==
    [f EXCEPT !.sessions = DictSet(EmptyDict, sid, obj),
              !.expire = LRUSet(<<>>, sid, f.clock)]

(* lines 90-91 *)
register_session(f, sid, obj) ==
    [f EXCEPT !.sessions = DictSet(f.sessions, sid, obj),
              !.expire = LRUSet(f.expire, sid, f.clock)]

(* resolve_session with the unknown-identifier branch lost: an identifier  *)
(* that is not registered starts a new session.                            *)
resolve_session_recreates(f, req, newid, newobj) ==
    IF IsProbe(req)
    THEN [f EXCEPT !.branch = "probe", !.result = "ok"]
    ELSE IF StartsNewSession(req) \/ req.header.value \notin DOMAIN f.sessions
    THEN LET g == register_session(f, newid, newobj)
         IN  [g EXCEPT !.branch = "new", !.sid = newid, !.obj = newobj,
                       !.set_header = TRUE, !.ops = Append(f.ops, "create"),
                       !.created = [sessions |-> g.sessions, expire |-> g.expire]]
    ELSE [f EXCEPT !.branch = "found", !.sid = req.header.value,
                   !.obj = f.sessions[req.header.value]]

(* lines 74-96 *)
resolve_session(f, req, newid, newobj) ==
    IF IsProbe(req)
    THEN [f EXCEPT !.branch = "probe", !.result = "ok"]
    ELSE IF StartsNewSession(req)
    THEN LET g == register_session(f, newid, newobj)
         IN  [g EXCEPT !.branch = "new", !.sid = newid, !.obj = newobj,
                       !.set_header = TRUE, !.ops = Append(f.ops, "create"),
                       !.created = [sessions |-> g.sessions, expire |-> g.expire]]
    ELSE IF req.header.value \notin DOMAIN f.sessions
    THEN [f EXCEPT !.branch = "unknown", !.result = "json",
                   !.body = CloseSessionBody]
    ELSE [f EXCEPT !.branch = "found", !.sid = req.header.value,
                   !.obj = f.sessions[req.header.value]]

(* The push without the test of the method. *)
push_event_any_method(f, req, raises) ==
    IF f.result # "running" THEN f
    ELSE [f EXCEPT !.ops = Append(f.ops, "push"),
                   !.pushed = Append(f.pushed, [obj |-> f.obj, event |-> req.json]),
                   !.result = IF raises THEN "PushError" ELSE "running"]

(* lines 98-102; raises is whether send_client_event raises on the payload *)
push_event(f, req, raises) ==
    IF f.result # "running" \/ req.method # "POST" THEN f
    ELSE [f EXCEPT !.ops = Append(f.ops, "push"),
                   !.pushed = Append(f.pushed, [obj |-> f.obj, event |-> req.json]),
                   !.result = IF raises THEN "PushError" ELSE "running"]

(* The sweep due as soon as the clock has moved. *)
SweepDue_any(t, last_check) == t - last_check > 0

(* The sweep due only after two intervals. *)
SweepDue_twice(t, last_check) == t - last_check > 2 * REMOVE_EXPIRED_SESSIONS_INTERVAL

(* line 104 *)
SweepDue(t, last_check) == t - last_check > REMOVE_EXPIRED_SESSIONS_INTERVAL

(* lines 104-106 *)
sweep_if_due(f, budget, tick) ==
    IF f.result # "running" THEN f
    ELSE LET t == f.clock + tick
         IN  IF ~SweepDue(t, f.last_check) THEN [f EXCEPT !.clock = t]
             ELSE LET sw == remove_expired_sessions(f.sessions, f.expire,
                                                    budget, t, tick)
                      g == [f EXCEPT !.sessions = sw.sessions,
                                     !.expire = sw.expire,
                                     !.clock = sw.clock,
                                     !.ops = Append(f.ops, "sweep"),
                                     !.sweep = [ran |-> TRUE, at |-> t,
                                                before |-> f.expire,
                                                inspected |-> sw.inspected,
                                                after |-> sw.expire,
                                                sessions |-> sw.sessions]]
                  IN  IF sw.raised THEN [g EXCEPT !.result = "KeyError"]
                      ELSE [g EXCEPT !.clock = sw.clock + tick,
                                     !.last_check = sw.clock + tick]

(* lines 45-46 and 108: the body is what get_task_messages returned *)
make_response(f, msgs) ==
    [f EXCEPT !.ops = Append(f.ops, "pull"), !.body = msgs]

(* Lines 109-113 with "if set_header" for "elif set_header". *)
finish_response_always_header(f, closed) ==
    LET rm == remove_webio_session(f.sessions, f.expire, f.sid)
        g == IF closed
             THEN [f EXCEPT !.closed = TRUE,
                            !.sessions = rm.sessions, !.expire = rm.expire,
                            !.ops = Append(f.ops, "remove"),
                            !.result = IF rm.raised THEN "KeyError" ELSE "json"]
             ELSE [f EXCEPT !.result = "json"]
    IN  IF f.set_header /\ g.result = "json"
        THEN [g EXCEPT !.header = Present(f.sid), !.ops = Append(g.ops, "header")]
        ELSE g

(* lines 109-113; closed is what webio_session.closed() returns *)
finish_response(f, closed) ==
    IF closed
    THEN LET rm == remove_webio_session(f.sessions, f.expire, f.sid)
         IN  [f EXCEPT !.closed = TRUE,
                       !.sessions = rm.sessions, !.expire = rm.expire,
                       !.ops = Append(f.ops, "remove"),
                       !.result = IF rm.raised THEN "KeyError" ELSE "json"]
    ELSE IF f.set_header
    THEN [f EXCEPT !.header = Present(f.sid), !.result = "json",
                   !.ops = Append(f.ops, "header")]
    ELSE [f EXCEPT !.result = "json"]

(* lines 108-113 *)
respond(f, msgs, closed) ==
    IF f.result # "running" THEN f
    ELSE finish_response(make_response(f, msgs), closed)

(* The whole call.  env: what the call gets from outside the module. *)
webio_view(f, req, budget, env) ==
    respond(
        sweep_if_due(
            push_event(resolve_session(f, req, env.newid, env.newobj),
                       req, env.pushRaises),
            budget, env.tick),
        env.msgs, env.closed)

----------------------------------------------------------------------------
(* The requests a client may send.  A GET carries no payload.  Identifiers *)
(* that are not registered are interchangeable, so one of them stands for  *)
(* all: Unregistered is the one a client presents or random_str returns.   *)
Unregistered(sessions) ==
    LET free == {i \in DOMAIN IdOrder : IdOrder[i] \notin DOMAIN sessions}
    IN  IF free = {} THEN {}
        ELSE {IdOrder[CHOOSE i \in free : \A j \in free : i <= j]}

SessionHeaders(sessions) ==
    {Absent, Present("")} \cup
    {Present(v) : v \in DOMAIN sessions \cup Unregistered(sessions)}

Requests(sessions) ==
    {[test |-> t, header |-> h, method |-> "GET", json |-> NoPayload] :
        t \in TestArgs, h \in SessionHeaders(sessions)} \cup
    {[test |-> r[1], header |-> r[2], method |-> "POST", json |-> r[3]] :
        r \in TestArgs \X SessionHeaders(sessions) \X Payloads}

NoRequest == [test |-> Absent, header |-> Absent, method |-> "GET", json |-> NoPayload]

(* What a call of _webio_view gets from outside the module: the identifier *)
(* random_str returns, the Session object constructed, how the clock moves *)
(* between its reads, whether send_client_event raises, what               *)
(* get_task_messages returns and what closed() answers.  An input the call *)
(* never reads is fixed.                                                   *)
IdleEnv(newobj) ==
    [newid |-> "s1", newobj |-> newobj, tick |-> 0, pushRaises |-> FALSE,
     msgs |-> <<>>, closed |-> FALSE]

Envs(req, sessions, newobj) ==
    IF IsProbe(req) \/ (~StartsNewSession(req) /\ req.header.value \notin DOMAIN sessions)
    THEN {IdleEnv(newobj)}
    ELSE LET newids == IF StartsNewSession(req)
                       THEN DOMAIN sessions \cup Unregistered(sessions)
                       ELSE {"s1"}
         IN  {[newid |-> e[1], newobj |-> newobj, tick |-> e[2],
               pushRaises |-> FALSE, msgs |-> e[3], closed |-> e[4]] :
                 e \in newids \X Ticks \X MessageLists \X BOOLEAN}
             \cup
             (IF req.method = "POST"
              THEN {[IdleEnv(newobj) EXCEPT !.newid = n, !.pushRaises = TRUE] :
                       n \in newids}
              ELSE {})

(* No request is being answered. *)
NoLog == [req |-> NoRequest, env |-> IdleEnv(0), evicted |-> <<>>,
          active |-> EmptyDict,
          pre |-> Frame(EmptyDict, <<>>, 0, 0), f |-> Frame(EmptyDict, <<>>, 0, 0)]

Init ==
    /\ webio_sessions = EmptyDict
    /\ webio_expire = <<>>
    /\ last_check_session_expire_ts = 0
    /\ session_expire_seconds \in Budgets
    /\ now = REMOVE_EXPIRED_SESSIONS_INTERVAL + 1
    /\ nreq = 0
    /\ last_active = EmptyDict
    /\ log = NoLog

(* The evictions of a sweep, each with the arrival time of the latest      *)
(* request served for the evicted identifier.                              *)
Evictions(inspected, active) ==
    LET removed == SelectSeq(inspected, LAMBDA r : r.removed)
    IN  [i \in DOMAIN removed |->
            [sid |-> removed[i].sid, at |-> removed[i].at,
             last |-> active[removed[i].sid]]]

(* One call of _webio_view with no other call in flight, from the arrival  *)
(* of the request to the return or the exception.  Spec is the program     *)
(* with its requests handled one at a time; calls that overlap are the     *)
(* subject of SpecRace, which runs the same lines step by step.            *)
HandleRequest ==
    /\ log = NoLog
    /\ nreq < MaxRequests
    /\ \E gap \in Gaps, req \in Requests(webio_sessions) :
       \E env \in Envs(req, webio_sessions, nreq + 1) :
          LET f0 == Frame(webio_sessions, webio_expire,
                          last_check_session_expire_ts, now + gap)
              f == webio_view(f0, req, session_expire_seconds, env)
              active == IF f.branch \in {"new", "found"}
                        THEN DictSet(last_active, f.sid, f.arrival)
                        ELSE last_active
          IN  /\ webio_sessions' = f.sessions
              /\ webio_expire' = f.expire
              /\ last_check_session_expire_ts' = f.last_check
              /\ now' = f.clock
              /\ last_active' = [s \in DOMAIN active \cap DOMAIN f.sessions |-> active[s]]
              /\ log' = [req |-> req, env |-> env, pre |-> f0, f |-> f,
                         active |-> last_active,
                         evicted |-> Evictions(f.sweep.inspected, active)]
    /\ nreq' = nreq + 1
    /\ UNCHANGED session_expire_seconds

(* The response (or the error) has gone to the client and the request     *)
(* context is torn down; the next request can be taken.                    *)
EndRequest ==
    /\ log # NoLog
    /\ log' = NoLog
    /\ UNCHANGED <<webio_sessions, webio_expire, last_check_session_expire_ts,
                   session_expire_seconds, now, nreq, last_active>>

Next == HandleRequest \/ EndRequest

Spec == Init /\ [][Next]_vars

----------------------------------------------------------------------------
(* Properties of requests handled one at a time.  In a state with         *)
(* log # NoLog a request has just been handled: log.req is the request, log.env what the call got from outside, *)
(* log.pre the registry, tracker and last-sweep timestamp it found, log.f  *)
(* the frame it ended with; the variables hold what it left behind.        *)

Handled == log # NoLog
Range(d) == {d[k] : k \in DOMAIN d}
IndexOf(ops, op) == CHOOSE i \in DOMAIN ops : ops[i] = op
Has(ops, op) == \E i \in DOMAIN ops : ops[i] = op

(* The request presents a non-empty identifier that the registry it found  *)
(* does not hold, and asks for no liveness probe.                          *)
PresentsUnknownId ==
    /\ Handled
    /\ ~(log.req.test.present /\ log.req.test.value # "")
    /\ log.req.header.present
    /\ log.req.header.value # ""
    /\ log.req.header.value \notin DOMAIN log.pre.sessions

(* C1: a request presenting a non-empty identifier that is not registered  *)
(* (and no test argument) is answered with exactly [{command:              *)
(* close_session}] and changes nothing: registry, tracker and last-sweep   *)
(* timestamp are as it found them, no session is created, and no push,     *)
(* pull or sweep is performed, whatever the method.                        *)
C1_UnknownIdGetsCloseSession ==
    PresentsUnknownId =>
        /\ log.f.result = "json"
        /\ log.f.body = <<[command |-> "close_session"]>>
        /\ webio_sessions = log.pre.sessions
        /\ webio_expire = log.pre.expire
        /\ last_check_session_expire_ts = log.pre.last_check
        /\ log.f.ops = <<>>
        /\ log.f.pushed = <<>>
        /\ ~log.f.sweep.ran

C1_Witness ==
    /\ PresentsUnknownId
    /\ log.req.method = "POST"
    /\ webio_sessions # EmptyDict
    /\ now - last_check_session_expire_ts > REMOVE_EXPIRED_SESSIONS_INTERVAL

(* C2: after every request, returned or raised, the identifiers of the     *)
(* expiry tracker are exactly the identifiers of the registry.             *)
C2_Pairing == Keys(webio_expire) = DOMAIN webio_sessions

C2_Witness ==
    /\ Handled
    /\ log.f.result = "KeyError"
    /\ webio_sessions # EmptyDict
    /\ Keys(webio_expire) = DOMAIN webio_sessions

(* The request was served by a session: it was no probe and presented no   *)
(* unknown identifier.                                                     *)
Served == Handled /\ log.f.branch \in {"new", "found"}

(* C3: a request presenting a registered identifier refreshes the          *)
(* session's expiry record: afterwards the record carries the time of the  *)
(* request and is at the most recently active end of the tracker.          *)
C3_RequestRefreshesRecord ==
    (Handled /\ log.f.branch = "found" /\ log.f.sid \in Keys(webio_expire)) =>
        LET last == webio_expire[Len(webio_expire)]
        IN  /\ last.sid = log.f.sid
            /\ last.ts >= log.f.arrival
            /\ last.ts <= now

(* C4: the sweep never evicts a session earlier than the budget after the  *)
(* latest request served for it.                                           *)
C4_NoEvictionBeforeBudget ==
    Handled =>
        \A i \in DOMAIN log.evicted :
            log.evicted[i].at - log.evicted[i].last >= session_expire_seconds

NonDecreasing(e) == \A i, j \in DOMAIN e : i < j => e[i].ts <= e[j].ts
Increasing(e) == \A i, j \in DOMAIN e : i < j => e[i].ts < e[j].ts

(* The registry the sweep of the logged request found. *)
RegistryBeforeSweep ==
    IF log.f.branch = "new" THEN log.f.created.sessions ELSE log.pre.sessions

(* C5: a sweep removes, from the tracker and from the registry, exactly    *)
(* the records at the least recently active end that are expired at the    *)
(* time it reads for them (T - ti >= B), stops at the first record with    *)
(* T - ti < B and removes nothing behind it; with the timestamps in        *)
(* order, no record it leaves is expired at the time it stopped.           *)
C5_SweepRemovesExpiredPrefix ==
    (Handled /\ log.f.sweep.ran) =>
        LET sw == log.f.sweep
            before == sw.before
            ins == sw.inspected
            B == session_expire_seconds
            k == Cardinality({i \in DOMAIN ins : ins[i].removed})
        IN  /\ Len(ins) <= Len(before)
            /\ \A i \in DOMAIN ins :
                  /\ ins[i].sid = before[i].sid
                  /\ ins[i].ts = before[i].ts
                  /\ ins[i].removed <=> (ins[i].at - ins[i].ts >= B)
                  /\ ~ins[i].removed => i = Len(ins)
            /\ k = Len(ins) => Len(ins) = Len(before)
            /\ sw.after = SubSeq(before, k + 1, Len(before))
            /\ sw.sessions =
                  [s \in DOMAIN RegistryBeforeSweep \ {before[i].sid : i \in 1..k} |->
                      RegistryBeforeSweep[s]]
            /\ (NonDecreasing(before) /\ ins # <<>>) =>
                  \A j \in DOMAIN sw.after : ins[Len(ins)].at - sw.after[j].ts < B

C5_Witness ==
    /\ Handled
    /\ log.f.sweep.ran
    /\ Len(log.f.sweep.before) = 3
    /\ Increasing(log.f.sweep.before)
    /\ Len(log.f.sweep.inspected) = 2
    /\ log.f.sweep.inspected[1].removed
    /\ ~log.f.sweep.inspected[2].removed
    /\ Len(log.f.sweep.after) = 2

(* C6 as claimed: the identifier of a new session is none of the registry, *)
(* and creating the session leaves every entry and every record it found.  *)
C6_NewIdentifierIsUnused ==
    (Handled /\ log.f.branch = "new") =>
        /\ log.f.sid \notin DOMAIN log.pre.sessions
        /\ \A s \in DOMAIN log.pre.sessions :
              log.f.created.sessions[s] = log.pre.sessions[s]
        /\ SubSeq(log.f.created.expire, 1, Len(log.pre.expire)) = log.pre.expire

(* C6 as amended: every creating request registers a Session object that   *)
(* is none of the registered ones, under the identifier random_str         *)
(* returned, and touches no entry or record of another identifier; the     *)
(* registry never holds one Session under two identifiers.  There is no    *)
(* collision check: when random_str returns a registered identifier, that  *)
(* entry is rebound to the new Session and its record is replaced.         *)
C6_CreationRegistersDistinctSession ==
    /\ \A a, b \in DOMAIN webio_sessions :
          webio_sessions[a] = webio_sessions[b] => a = b
    /\ (Handled /\ log.f.branch = "new") =>
          /\ log.f.obj \notin Range(log.pre.sessions)
          /\ DOMAIN log.f.created.sessions = DOMAIN log.pre.sessions \cup {log.f.sid}
          /\ log.f.created.sessions[log.f.sid] = log.f.obj
          /\ \A s \in DOMAIN log.pre.sessions \ {log.f.sid} :
                log.f.created.sessions[s] = log.pre.sessions[s]
          /\ log.f.created.expire =
                Append(SelectSeq(log.pre.expire, LAMBDA r : r.sid # log.f.sid),
                       [sid |-> log.f.sid, ts |-> log.f.arrival])

C6_Witness ==
    /\ Handled
    /\ log.f.branch = "new"
    /\ Cardinality(DOMAIN log.pre.sessions) = 2
    /\ log.f.sid \notin DOMAIN log.pre.sessions
    /\ Cardinality(DOMAIN webio_sessions) = 3

(* C7: in a request served by a session, a POST payload goes to the push   *)
(* of that session exactly once and before the pull, also when the request *)
(* created the session; a GET pushes nothing.                              *)
C7_PushOnceBeforePull ==
    Served =>
        /\ log.f.obj = RegistryBeforeSweep[log.f.sid]
        /\ Cardinality({i \in DOMAIN log.f.ops : log.f.ops[i] = "pull"}) <= 1
        /\ IF log.req.method = "POST"
           THEN /\ log.f.pushed = <<[obj |-> log.f.obj, event |-> log.req.json]>>
                /\ Cardinality({i \in DOMAIN log.f.ops : log.f.ops[i] = "push"}) = 1
                /\ Has(log.f.ops, "pull") =>
                      IndexOf(log.f.ops, "push") < IndexOf(log.f.ops, "pull")
           ELSE /\ log.f.pushed = <<>>
                /\ ~Has(log.f.ops, "push")

C7_Witness ==
    /\ Served
    /\ log.f.branch = "new"
    /\ log.req.method = "POST"
    /\ log.f.ops = <<"create", "push", "sweep", "pull", "header">>

(* C8 as claimed: the response to a request that starts a session carries  *)
(* the new identifier in its header, also when the session reports closed  *)
(* after the first pull.                                                   *)
C8_NewSessionResponseHasHeader ==
    (Handled /\ log.f.branch = "new" /\ log.f.result = "json") =>
        log.f.header = Present(log.f.sid)

(* C8 as amended: the response to a request that starts a session carries  *)
(* the identifier the session was registered under when the session does   *)
(* not report closed after the pull; when it reports closed, the response  *)
(* carries no identifier.                                                  *)
C8_HeaderUnlessClosed ==
    (Handled /\ log.f.branch = "new" /\ log.f.result = "json") =>
        /\ log.f.created.sessions[log.f.sid] = log.f.obj
        /\ ~log.env.closed => log.f.header = Present(log.f.sid)
        /\ log.env.closed => log.f.header = Absent

C8_Witness ==
    /\ Handled
    /\ log.f.branch = "new"
    /\ log.f.result = "json"
    /\ log.req.header = Present("")
    /\ log.f.header = Present(log.f.sid)
    /\ log.pre.sessions # EmptyDict

(* C9: when the session reports closed after the pull, the response of the *)
(* request holds the messages of that pull and the identifier is gone from *)
(* the registry and from the tracker.                                      *)
C9_ClosedSessionAnsweredAndRemoved ==
    (Served /\ log.f.closed) =>
        /\ log.f.result = "json"
        /\ log.f.body = log.env.msgs
        /\ log.f.sid \notin DOMAIN webio_sessions
        /\ log.f.sid \notin Keys(webio_expire)

(* C10: removing an identifier never raises, also when the sweep of the    *)
(* request has evicted the session the request then finds closed.          *)
C10_RemovalNeverRaises ==
    Handled => log.f.result # "KeyError"


----------------------------------------------------------------------------
(* Specification SpecRemoval: _remove_webio_session called in a row on any *)
(* registry and any tracker: requests handled one at a time leave the two  *)
(* with the same keys, handlers that overlap also leave a record without   *)
(* session or a session without record.  log holds the identifier, the     *)
(* state the calls started from and the outcome of each call.              *)

RemovalCalls == 2
Stamps == {REMOVE_EXPIRED_SESSIONS_INTERVAL + 1, 2 * REMOVE_EXPIRED_SESSIONS_INTERVAL + 1}

RECURSIVE Trackers(_)
Trackers(n) ==
    IF n = 0 THEN {<<>>}
    ELSE LET shorter == Trackers(n - 1)
         IN  shorter \cup
             {Append(e, [sid |-> s, ts |-> t]) :
                 e \in {x \in shorter : Len(x) = n - 1}, s \in Ids, t \in Stamps}

PairedTrackers ==
    {e \in Trackers(Cardinality(Ids)) :
        /\ \A i, j \in DOMAIN e : i # j => e[i].sid # e[j].sid
        /\ \A i, j \in DOMAIN e : i < j => e[i].ts <= e[j].ts}

Registries ==
    {[s \in K |-> CHOOSE i \in DOMAIN IdOrder : IdOrder[i] = s] : K \in SUBSET Ids}

InitRemoval ==
    /\ webio_expire \in PairedTrackers
    /\ webio_sessions \in Registries
    /\ last_check_session_expire_ts = 0
    /\ session_expire_seconds \in Budgets
    /\ now = 2 * REMOVE_EXPIRED_SESSIONS_INTERVAL + 1
    /\ nreq = 0
    /\ last_active = EmptyDict
    /\ \E sid \in Ids :
          log = [sid |-> sid, calls |-> <<>>,
                 start |-> [sessions |-> webio_sessions, expire |-> webio_expire]]

RemoveCall ==
    /\ nreq < RemovalCalls
    /\ LET rm == remove_webio_session(webio_sessions, webio_expire, log.sid)
       IN  /\ webio_sessions' = rm.sessions
           /\ webio_expire' = rm.expire
           /\ log' = [log EXCEPT !.calls = Append(@, rm)]
    /\ nreq' = nreq + 1
    /\ UNCHANGED <<last_check_session_expire_ts, session_expire_seconds, now,
                   last_active>>

NextRemoval == RemoveCall

SpecRemoval == InitRemoval /\ [][NextRemoval]_vars

(* C11: the state after two calls of _remove_webio_session(sid) in a row   *)
(* is the state after one: sid is in neither structure, every other entry  *)
(* and the order of the tracker are as before the calls.                   *)
C11_RemovalIdempotentOnState ==
    Len(log.calls) >= 2 =>
        /\ log.calls[2].sessions = log.calls[1].sessions
        /\ log.calls[2].expire = log.calls[1].expire
        /\ log.sid \notin DOMAIN log.calls[2].sessions
        /\ log.sid \notin {log.calls[2].expire[i].sid : i \in DOMAIN log.calls[2].expire}
        /\ log.calls[2].sessions =
              [s \in DOMAIN log.start.sessions \ {log.sid} |-> log.start.sessions[s]]
        /\ log.calls[2].expire =
              SelectSeq(log.start.expire, LAMBDA r : r.sid # log.sid)


----------------------------------------------------------------------------
(* C12: a request with a truthy 'test' query parameter is answered 'ok'    *)
(* and changes nothing: registry, tracker and last-sweep timestamp are as  *)
(* the request found them, no session is created, pushed to or pulled      *)
(* from, no sweep runs, whatever the method, the payload and the           *)
(* identifier presented.                                                   *)
C12_ProbeAnswersOkAndChangesNothing ==
    (Handled /\ Truthy(log.req.test)) =>
        /\ log.f.result = "ok"
        /\ log.f.body = <<>>
        /\ log.f.header = Absent
        /\ webio_sessions = log.pre.sessions
        /\ webio_expire = log.pre.expire
        /\ last_check_session_expire_ts = log.pre.last_check
        /\ log.f.ops = <<>>
        /\ log.f.pushed = <<>>
        /\ log.f.created = NotCreated
        /\ ~log.f.sweep.ran
        /\ now = log.pre.clock

(* A POST probe with a payload and a known identifier, met by a registry   *)
(* of two sessions when a sweep is due.                                    *)
C12_Witness ==
    /\ Handled
    /\ Truthy(log.req.test)
    /\ log.req.method = "POST"
    /\ log.req.json # NoPayload
    /\ log.req.header.present
    /\ log.req.header.value \in DOMAIN log.pre.sessions
    /\ Cardinality(DOMAIN log.pre.sessions) = 2
    /\ SweepDue(log.pre.clock, log.pre.last_check)
    /\ log.f.result = "ok"


----------------------------------------------------------------------------
(* The request got as far as line 104: it neither returned early (probe,   *)
(* unknown identifier) nor failed in the push.                             *)
ReachedSweepTest ==
    Handled /\ log.f.branch \in {"new", "found"} /\ log.f.result # "PushError"

(* The sessions the request found registered and did not address, whose    *)
(* latest request arrived at least the budget before this one.             *)
Abandoned ==
    {s \in DOMAIN log.active \ {log.f.sid} :
        log.pre.arrival - log.active[s] >= session_expire_seconds}

(* The request arrived more than the sweep interval after the last sweep. *)
ArrivedAfterInterval ==
    log.pre.arrival - log.pre.last_check > REMOVE_EXPIRED_SESSIONS_INTERVAL

(* The sweep of the request ran and took every abandoned session out of    *)
(* the registry and the tracker.                                           *)
AbandonedReclaimed ==
    /\ log.f.sweep.ran
    /\ \A s \in Abandoned :
          /\ s \notin DOMAIN webio_sessions
          /\ s \notin Keys(webio_expire)
          /\ \E i \in DOMAIN log.f.sweep.inspected :
                /\ log.f.sweep.inspected[i].sid = s
                /\ log.f.sweep.inspected[i].removed

----------------------------------------------------------------------------
(* C14: a sweep runs only in a request whose clock reading of line 104 is  *)
(* at least the sweep interval after the last-sweep timestamp, and the     *)
(* timestamp then becomes the reading taken after the sweep (line 106), so *)
(* two sweeps in a row start at least one interval apart; a request that   *)
(* does not sweep leaves the timestamp as it found it, and the eviction    *)
(* routine does not write it.                                              *)
C14_SweepCadence ==
    Handled =>
        /\ log.f.sweep.ran =>
              /\ log.f.sweep.at - log.pre.last_check >= REMOVE_EXPIRED_SESSIONS_INTERVAL
              /\ log.f.sweep.at >= log.pre.arrival
              /\ \A i \in DOMAIN log.f.sweep.inspected :
                    log.f.sweep.inspected[i].at >= log.f.sweep.at
              /\ log.f.result # "KeyError" =>
                    /\ last_check_session_expire_ts = now
                    /\ last_check_session_expire_ts >= log.f.sweep.at
                    /\ \A i \in DOMAIN log.f.sweep.inspected :
                          last_check_session_expire_ts >= log.f.sweep.inspected[i].at
                    /\ last_check_session_expire_ts - log.pre.last_check
                          >= REMOVE_EXPIRED_SESSIONS_INTERVAL
        /\ ~log.f.sweep.ran =>
              last_check_session_expire_ts = log.pre.last_check

(* A second sweep: the timestamp left by an earlier sweep is advanced.     *)
C14_Witness ==
    /\ Handled
    /\ log.f.sweep.ran
    /\ log.pre.last_check > REMOVE_EXPIRED_SESSIONS_INTERVAL
    /\ log.f.sweep.inspected # <<>>
    /\ last_check_session_expire_ts > log.pre.last_check


----------------------------------------------------------------------------
(* C15: an identifier carried by the 'webio-session-id' header of a        *)
(* response is in the registry and in the tracker when the response is     *)
(* returned.                                                               *)
C15_NoStaleIdentifierEchoed ==
    (Handled /\ log.f.header.present) =>
        /\ log.f.header.value \in DOMAIN webio_sessions
        /\ log.f.header.value \in Keys(webio_expire)


----------------------------------------------------------------------------
(* Specification SpecRace: two calls of _webio_view in flight at once.     *)
(* Flask runs every request on a thread of its own and the module takes no *)
(* lock (flask.py:35), so the calls interleave at every dictionary         *)
(* operation, test and assignment of lines 74-112; LRUDict.__setitem__ is  *)
(* two operations, the store and the move_to_end.  pc names the line a     *)
(* thread is about to run; a line that reads the clock and then reads or   *)
(* writes a global (91, 104, 106) is two steps, and the value read is held *)
(* by the thread (clock) until the second step has used it.  log.th holds  *)
(* the threads' requests and local variables, log.start the registry and   *)
(* the tracker they found, which are as requests handled one at a time     *)
(* leave them.  The clock advances by up to RaceTicks while the calls run: *)
(* the sweep is not due at RaceStart and due after it.  HandleRequest of   *)
(* Spec is such a call with no other call in flight.                       *)

Threads == {1, 2}
RaceStart == 2 * REMOVE_EXPIRED_SESSIONS_INTERVAL + 1
RaceTicks == 2
NoRecord == [sid |-> "", ts |-> 0]

RaceSessions == 1

(* The registries the calls may find: identifiers are interchangeable, so  *)
(* the records carry them in the order of IdOrder.                         *)
RaceTrackers ==
    {e \in PairedTrackers :
        /\ Len(e) <= RaceSessions
        /\ \A i \in DOMAIN e : e[i].sid = IdOrder[i]}

(* One probe stands for all probes. *)
RaceRequests(sessions) ==
    {r \in Requests(sessions) :
        /\ r.test # Present("")
        /\ r.header # Present("")
        /\ IsProbe(r) => (r.header = Absent /\ r.method = "GET")}

(* The identifiers random_str may return to the two calls: the two lowest  *)
(* that are not registered, so that the calls may get the same or two      *)
(* different ones.                                                         *)
RaceIdOrder == IdOrder \o <<"s4">>

FreeIds(sessions) ==
    LET free == {i \in DOMAIN RaceIdOrder : RaceIdOrder[i] \notin DOMAIN sessions}
    IN  {RaceIdOrder[i] : i \in {j \in free :
                                   Cardinality({k \in free : k < j}) < Cardinality(Threads)}}

(* What a call gets from outside, as in Envs.  The clock is moved by       *)
(* ClockTick, random_str returns an identifier that is not registered, the *)
(* push returns.  A call that presents an identifier finds at line 92      *)
(* whether it is registered by then, so closed() has an answer for it also *)
(* when the identifier is not registered at the start.                     *)
RaceEnvs(req, sessions, newobj) ==
    IF IsProbe(req)
    THEN {IdleEnv(newobj)}
    ELSE {[newid |-> n, newobj |-> newobj, tick |-> 0, pushRaises |-> FALSE,
           msgs |-> <<>>, closed |-> c] :
             n \in (IF StartsNewSession(req) THEN FreeIds(sessions) ELSE {"s1"}),
             c \in BOOLEAN}

Thread(req, env) ==
    [pc |-> "l74", req |-> req, env |-> env, sid |-> "", obj |-> 0,
     set_header |-> FALSE, clock |-> 0, rec |-> NoRecord, swept |-> FALSE,
     expired |-> {}, cleaning |-> FALSE, ops |-> <<>>, error |-> "none",
     result |-> "running", body |-> <<>>, header |-> Absent]

InitRace ==
    /\ webio_expire \in RaceTrackers
    /\ webio_sessions = [s \in Keys(webio_expire) |->
                            CHOOSE i \in DOMAIN IdOrder : IdOrder[i] = s]
    /\ last_check_session_expire_ts = REMOVE_EXPIRED_SESSIONS_INTERVAL + 1
    /\ session_expire_seconds \in Budgets
    /\ now = RaceStart
    /\ nreq = 0
    /\ last_active = EmptyDict
    /\ \E ra, rb \in RaceRequests(webio_sessions) :
       \E ea \in RaceEnvs(ra, webio_sessions, Len(IdOrder) + 1),
          eb \in RaceEnvs(rb, webio_sessions, Len(IdOrder) + 2) :
          log = [start |-> [sessions |-> webio_sessions, expire |-> webio_expire],
                 th |-> [t \in Threads |->
                            IF t = 1 THEN Thread(ra, ea) ELSE Thread(rb, eb)]]

At(t, line) == log.th[t].pc = line
Goto(t, line) == [log EXCEPT !.th[t].pc = line]
Raise(t, line) ==
    [log EXCEPT !.th[t].pc = "raised", !.th[t].error = line,
                !.th[t].result = "KeyError"]

RestUnchanged == UNCHANGED <<session_expire_seconds, nreq, last_active>>

(* time.time() returns more than it did *)
ClockTick ==
    /\ now < RaceStart + RaceTicks
    /\ now' = now + 1
    /\ UNCHANGED <<webio_sessions, webio_expire, last_check_session_expire_ts, log>>
    /\ RestUnchanged

(* lines 74-75 *)
ProbeTest(t) ==
    /\ At(t, "l74")
    /\ log' = IF IsProbe(log.th[t].req)
              THEN [log EXCEPT !.th[t].pc = "done", !.th[t].result = "ok"]
              ELSE Goto(t, "l83")
    /\ UNCHANGED <<webio_sessions, webio_expire, last_check_session_expire_ts, now>>
    /\ RestUnchanged

(* lines 81-89: a request without identifier gets one from random_str and  *)
(* a Session object                                                        *)
HeaderTest(t) ==
    /\ At(t, "l83")
    /\ log' = IF StartsNewSession(log.th[t].req)
              THEN [log EXCEPT !.th[t].pc = "l90",
                               !.th[t].set_header = TRUE,
                               !.th[t].sid = log.th[t].env.newid,
                               !.th[t].obj = log.th[t].env.newobj,
                               !.th[t].ops = Append(@, "create")]
              ELSE Goto(t, "l92")
    /\ UNCHANGED <<webio_sessions, webio_expire, last_check_session_expire_ts, now>>
    /\ RestUnchanged

(* line 90 *)
StoreSession(t) ==
    /\ At(t, "l90")
    /\ webio_sessions' = DictSet(webio_sessions, log.th[t].sid, log.th[t].obj)
    /\ log' = Goto(t, "l91")
    /\ UNCHANGED <<webio_expire, last_check_session_expire_ts, now>>
    /\ RestUnchanged

(* line 91, the call of time.time() *)
ReadRecordClock(t) ==
    /\ At(t, "l91")
    /\ log' = [log EXCEPT !.th[t].pc = "l91_store", !.th[t].clock = now]
    /\ UNCHANGED <<webio_sessions, webio_expire, last_check_session_expire_ts, now>>
    /\ RestUnchanged

(* line 91, the store of LRUDict.__setitem__ *)
StoreRecord(t) ==
    /\ At(t, "l91_store")
    /\ webio_expire' = DictStore(webio_expire, log.th[t].sid, log.th[t].clock)
    /\ log' = [log EXCEPT !.th[t].pc = "l91_move", !.th[t].clock = 0]
    /\ UNCHANGED <<webio_sessions, last_check_session_expire_ts, now>>
    /\ RestUnchanged

(* line 91, the move_to_end of LRUDict.__setitem__: KeyError when the key  *)
(* has gone since the store                                                *)
MoveRecordToEnd(t) ==
    /\ At(t, "l91_move")
    /\ IF log.th[t].sid \in Keys(webio_expire)
       THEN /\ webio_expire' = MoveToEnd(webio_expire, log.th[t].sid)
            /\ log' = Goto(t, "l98")
       ELSE /\ log' = Raise(t, "l91")
            /\ UNCHANGED webio_expire
    /\ UNCHANGED <<webio_sessions, last_check_session_expire_ts, now>>
    /\ RestUnchanged

(* lines 92-93 *)
KnownTest(t) ==
    /\ At(t, "l92")
    /\ log' = IF log.th[t].req.header.value \notin DOMAIN webio_sessions
              THEN [log EXCEPT !.th[t].pc = "done", !.th[t].result = "json",
                               !.th[t].body = CloseSessionBody]
              ELSE Goto(t, "l96")
    /\ UNCHANGED <<webio_sessions, webio_expire, last_check_session_expire_ts, now>>
    /\ RestUnchanged

(* lines 95-96: KeyError when the session has gone since line 92 *)
LookupSession(t) ==
    /\ At(t, "l96")
    /\ log' = IF log.th[t].req.header.value \in DOMAIN webio_sessions
              THEN [log EXCEPT !.th[t].pc = "l98",
                               !.th[t].sid = log.th[t].req.header.value,
                               !.th[t].obj = webio_sessions[log.th[t].req.header.value]]
              ELSE [Raise(t, "l96") EXCEPT !.th[t].sid = log.th[t].req.header.value]
    /\ UNCHANGED <<webio_sessions, webio_expire, last_check_session_expire_ts, now>>
    /\ RestUnchanged

(* lines 98-102: the push of a POST, which may raise; the other thread     *)
(* runs on while this one waits in front of or behind it                   *)
PushEvent(t) ==
    /\ At(t, "l98")
    /\ log' = IF log.th[t].req.method # "POST" THEN Goto(t, "l104")
              ELSE IF log.th[t].env.pushRaises
              THEN [log EXCEPT !.th[t].pc = "raised", !.th[t].error = "l99",
                               !.th[t].result = "PushError",
                               !.th[t].ops = Append(@, "push")]
              ELSE [log EXCEPT !.th[t].pc = "l104",
                               !.th[t].ops = Append(@, "push")]
    /\ UNCHANGED <<webio_sessions, webio_expire, last_check_session_expire_ts, now>>
    /\ RestUnchanged

(* line 104, the call of time.time() *)
ReadTestClock(t) ==
    /\ At(t, "l104")
    /\ log' = [log EXCEPT !.th[t].pc = "l104_test", !.th[t].clock = now]
    /\ UNCHANGED <<webio_sessions, webio_expire, last_check_session_expire_ts, now>>
    /\ RestUnchanged

(* line 104, the read of the global and the test *)
SweepTest(t) ==
    /\ At(t, "l104_test")
    /\ log' = IF SweepDue(log.th[t].clock, last_check_session_expire_ts)
              THEN [log EXCEPT !.th[t].pc = "l50", !.th[t].clock = 0,
                               !.th[t].swept = TRUE,
                               !.th[t].ops = Append(@, "sweep")]
              ELSE [log EXCEPT !.th[t].pc = "l108", !.th[t].clock = 0]
    /\ UNCHANGED <<webio_sessions, webio_expire, last_check_session_expire_ts, now>>
    /\ RestUnchanged

(* line 50 *)
LoopTest(t) ==
    /\ At(t, "l50")
    /\ log' = IF webio_expire = <<>> THEN Goto(t, "l106") ELSE Goto(t, "l51")
    /\ UNCHANGED <<webio_sessions, webio_expire, last_check_session_expire_ts, now>>
    /\ RestUnchanged

(* line 51: popitem raises KeyError on a tracker emptied since line 50 *)
PopItem(t) ==
    /\ At(t, "l51")
    /\ IF webio_expire = <<>>
       THEN /\ log' = Raise(t, "l51")
            /\ UNCHANGED webio_expire
       ELSE /\ log' = [log EXCEPT !.th[t].pc = "l52",
                                  !.th[t].rec = Head(webio_expire)]
            /\ webio_expire' = Tail(webio_expire)
    /\ UNCHANGED <<webio_sessions, last_check_session_expire_ts, now>>
    /\ RestUnchanged

(* line 52 *)
FreshTest(t) ==
    /\ At(t, "l52")
    /\ log' = IF Expired(now, log.th[t].rec.ts, session_expire_seconds)
              THEN [log EXCEPT !.th[t].pc = "l56",
                               !.th[t].expired = @ \cup {log.th[t].rec.sid}]
              ELSE Goto(t, "l53")
    /\ UNCHANGED <<webio_sessions, webio_expire, last_check_session_expire_ts, now>>
    /\ RestUnchanged

(* line 53, the store of LRUDict.__setitem__ *)
SetItem(t) ==
    /\ At(t, "l53")
    /\ webio_expire' = DictStore(webio_expire, log.th[t].rec.sid, log.th[t].rec.ts)
    /\ log' = Goto(t, "l53_move")
    /\ UNCHANGED <<webio_sessions, last_check_session_expire_ts, now>>
    /\ RestUnchanged

(* line 53, the move_to_end of LRUDict.__setitem__: KeyError when the key  *)
(* has gone since the store                                                *)
SetItemMoveToEnd(t) ==
    /\ At(t, "l53_move")
    /\ IF log.th[t].rec.sid \in Keys(webio_expire)
       THEN /\ webio_expire' = MoveToEnd(webio_expire, log.th[t].rec.sid)
            /\ log' = Goto(t, "l54")
       ELSE /\ log' = Raise(t, "l53")
            /\ UNCHANGED webio_expire
    /\ UNCHANGED <<webio_sessions, last_check_session_expire_ts, now>>
    /\ RestUnchanged

(* lines 54-55: move_to_end raises KeyError when the key has gone since    *)
(* line 53                                                                 *)
MoveFront(t) ==
    /\ At(t, "l54")
    /\ IF log.th[t].rec.sid \in Keys(webio_expire)
       THEN /\ webio_expire' = MoveToFront(webio_expire, log.th[t].rec.sid)
            /\ log' = [log EXCEPT !.th[t].pc = "l106", !.th[t].rec = NoRecord]
       ELSE /\ log' = Raise(t, "l54")
            /\ UNCHANGED webio_expire
    /\ UNCHANGED <<webio_sessions, last_check_session_expire_ts, now>>
    /\ RestUnchanged

(* line 56 *)
DelExpiredSession(t) ==
    /\ At(t, "l56")
    /\ IF log.th[t].rec.sid \in DOMAIN webio_sessions
       THEN /\ webio_sessions' = DictDel(webio_sessions, log.th[t].rec.sid)
            /\ log' = [log EXCEPT !.th[t].pc = "l50", !.th[t].rec = NoRecord]
       ELSE /\ log' = Raise(t, "l56")
            /\ UNCHANGED webio_sessions
    /\ UNCHANGED <<webio_expire, last_check_session_expire_ts, now>>
    /\ RestUnchanged

(* line 106, the call of time.time() *)
ReadStampClock(t) ==
    /\ At(t, "l106")
    /\ log' = [log EXCEPT !.th[t].pc = "l106_store", !.th[t].clock = now]
    /\ UNCHANGED <<webio_sessions, webio_expire, last_check_session_expire_ts, now>>
    /\ RestUnchanged

(* line 106, the store of the global *)
Stamp(t) ==
    /\ At(t, "l106_store")
    /\ last_check_session_expire_ts' = log.th[t].clock
    /\ log' = [log EXCEPT !.th[t].pc = "l108", !.th[t].clock = 0]
    /\ UNCHANGED <<webio_sessions, webio_expire, now>>
    /\ RestUnchanged

(* line 108 *)
Pull(t) ==
    /\ At(t, "l108")
    /\ log' = [log EXCEPT !.th[t].pc = "l109",
                          !.th[t].ops = Append(@, "pull"),
                          !.th[t].body = log.th[t].env.msgs]
    /\ UNCHANGED <<webio_sessions, webio_expire, last_check_session_expire_ts, now>>
    /\ RestUnchanged

(* lines 109-113: a session that is not closed gets its response, with the *)
(* header when the session is new                                          *)
ClosedTest(t) ==
    /\ At(t, "l109")
    /\ log' = IF log.th[t].env.closed
              THEN [log EXCEPT !.th[t].pc = "l63", !.th[t].cleaning = TRUE,
                               !.th[t].ops = Append(@, "remove")]
              ELSE IF log.th[t].set_header
              THEN [log EXCEPT !.th[t].pc = "done", !.th[t].result = "json",
                               !.th[t].header = Present(log.th[t].sid),
                               !.th[t].ops = Append(@, "header")]
              ELSE [log EXCEPT !.th[t].pc = "done", !.th[t].result = "json"]
    /\ UNCHANGED <<webio_sessions, webio_expire, last_check_session_expire_ts, now>>
    /\ RestUnchanged

(* line 63 *)
DelSession(t) ==
    /\ At(t, "l63")
    /\ IF log.th[t].sid \in DOMAIN webio_sessions
       THEN /\ webio_sessions' = DictDel(webio_sessions, log.th[t].sid)
            /\ log' = Goto(t, "l64")
       ELSE /\ log' = Raise(t, "l63")
            /\ UNCHANGED webio_sessions
    /\ UNCHANGED <<webio_expire, last_check_session_expire_ts, now>>
    /\ RestUnchanged

(* line 64, then the return of line 113 *)
DelExpire(t) ==
    /\ At(t, "l64")
    /\ IF log.th[t].sid \in Keys(webio_expire)
       THEN /\ webio_expire' = Without(webio_expire, log.th[t].sid)
            /\ log' = [log EXCEPT !.th[t].pc = "done", !.th[t].result = "json"]
       ELSE /\ log' = Raise(t, "l64")
            /\ UNCHANGED webio_expire
    /\ UNCHANGED <<webio_sessions, last_check_session_expire_ts, now>>
    /\ RestUnchanged

NextRace ==
    \/ ClockTick
    \/ \E t \in Threads :
        \/ ProbeTest(t)
        \/ HeaderTest(t)
        \/ StoreSession(t)
        \/ ReadRecordClock(t)
        \/ StoreRecord(t)
        \/ MoveRecordToEnd(t)
        \/ KnownTest(t)
        \/ LookupSession(t)
        \/ PushEvent(t)
        \/ ReadTestClock(t)
        \/ SweepTest(t)
        \/ LoopTest(t)
        \/ PopItem(t)
        \/ FreshTest(t)
        \/ SetItem(t)
        \/ SetItemMoveToEnd(t)
        \/ MoveFront(t)
        \/ DelExpiredSession(t)
        \/ ReadStampClock(t)
        \/ Stamp(t)
        \/ Pull(t)
        \/ ClosedTest(t)
        \/ DelSession(t)
        \/ DelExpire(t)

SpecRace == InitRace /\ [][NextRace]_vars

RaceOver == \A t \in Threads : log.th[t].pc \in {"done", "raised"}

(* C16: when the sweep of one handler and the closed-session cleanup of    *)
(* another, which serves a different session, are both after the same      *)
(* identifier, both handlers complete without raising and the identifier   *)
(* is then in neither the registry nor the tracker.                        *)
C16_RacingRemovalsComplete ==
    \A a, b \in Threads :
        (/\ RaceOver
         /\ a # b
         /\ log.th[a].sid # ""
         /\ log.th[a].sid # log.th[b].sid
         /\ log.th[b].cleaning
         /\ log.th[b].sid \in log.th[a].expired) =>
            /\ \A t \in Threads : log.th[t].pc = "done"
            /\ log.th[b].sid \notin DOMAIN webio_sessions
            /\ log.th[b].sid \notin Keys(webio_expire)

(* Each of the two handlers serves a session, created or found, and the    *)
(* two sessions have different identifiers.                                *)
ServeDifferentSessions ==
    /\ \A t \in Threads : log.th[t].sid # ""
    /\ log.th[1].sid # log.th[2].sid

(* C17: once concurrent handlers serving different sessions have all       *)
(* finished, the tracker holds records for exactly the identifiers of the  *)
(* registry.                                                               *)
C17_PairingAfterConcurrentHandlers ==
    (RaceOver /\ ServeDifferentSessions) =>
        Keys(webio_expire) = DOMAIN webio_sessions

----------------------------------------------------------------------------
(* The number of records at the least recently active end of e that are    *)
(* expired when the loop reads the clock for them: the i-th pass reads     *)
(* t0 + i * tick.                                                          *)
ExpiredPrefix(e, budget, t0, tick) ==
    LET old(i) == (t0 + i * tick) - e[i].ts >= budget
        ks == {k \in 0..Len(e) : \A i \in 1..k : old(i)}
    IN  CHOOSE k \in ks : \A j \in ks : j <= k

(* C18: a call of _remove_expired_sessions ends after at most one pass of  *)
(* its loop per record: it inspects the k expired records at the least     *)
(* recently active end and, unless that empties the tracker, the one       *)
(* record behind them, which is not expired, and no record further on.     *)
C18_SweepStopsAtFirstFreshRecord ==
    (Handled /\ log.f.sweep.ran) =>
        LET sw == log.f.sweep
            n == Len(sw.before)
            k == ExpiredPrefix(sw.before, session_expire_seconds, sw.at, log.env.tick)
            passes == Len(sw.inspected)
        IN  /\ passes <= n
            /\ passes = IF k = n THEN k ELSE k + 1
            /\ passes = k => sw.after = <<>>
            /\ \A i \in 1..passes :
                  /\ sw.inspected[i].sid = sw.before[i].sid
                  /\ sw.inspected[i].at = sw.at + i * log.env.tick
                  /\ sw.inspected[i].removed <=> i <= k
            /\ Len(sw.after) = n - k

(* Two expired records in front of a fresh one in front of nothing: three  *)
(* passes.                                                                 *)
C18_Witness ==
    /\ Handled
    /\ log.f.sweep.ran
    /\ Len(log.f.sweep.before) = 3
    /\ Len(log.f.sweep.inspected) = 3
    /\ log.f.sweep.inspected[2].removed
    /\ ~log.f.sweep.inspected[3].removed
    /\ log.env.tick = 1


----------------------------------------------------------------------------
(* C19: a sweep leaves the records that are not expired as they were: the  *)
(* tracker after it is the tracker before it without the records removed,  *)
(* in the same order and with the same timestamps, the record that was     *)
(* popped and kept is again at the least recently active end, no record    *)
(* that is not expired at the last clock reading of the sweep has gone,    *)
(* and the registry entries of the records left are the same objects.      *)
C19_SweepLeavesFreshRecords ==
    (Handled /\ log.f.sweep.ran) =>
        LET sw == log.f.sweep
            ins == sw.inspected
            gone == {ins[i].sid : i \in {j \in DOMAIN ins : ins[j].removed}}
            kept(r) == r.sid \notin gone
        IN  /\ sw.after = SelectSeq(sw.before, kept)
            /\ (ins # <<>> /\ ~ins[Len(ins)].removed) =>
                  /\ sw.after # <<>>
                  /\ Head(sw.after) = [sid |-> ins[Len(ins)].sid,
                                      ts |-> ins[Len(ins)].ts]
            /\ \A i \in DOMAIN sw.before :
                  (ins # <<>> /\ ins[Len(ins)].at - sw.before[i].ts < session_expire_seconds)
                      => \E j \in DOMAIN sw.after : sw.after[j] = sw.before[i]
            /\ \A j \in DOMAIN sw.after :
                  /\ sw.after[j].sid \in DOMAIN sw.sessions
                  /\ sw.sessions[sw.after[j].sid] = RegistryBeforeSweep[sw.after[j].sid]

(* A sweep that pops a fresh record in front of a younger one and puts it  *)
(* back.                                                                   *)
C19_Witness ==
    /\ Handled
    /\ log.f.sweep.ran
    /\ Len(log.f.sweep.before) = 2
    /\ log.f.sweep.before[1].ts < log.f.sweep.before[2].ts
    /\ Len(log.f.sweep.inspected) = 1
    /\ ~log.f.sweep.inspected[1].removed
    /\ log.f.sweep.after = log.f.sweep.before


----------------------------------------------------------------------------
(* C20: whatever requests have been handled, one at a time, the timestamps *)
(* of the tracker do not decrease from the least recently active end on,   *)
(* and a sweep that has stopped leaves no record that is expired at the    *)
(* clock reading it stopped with.                                          *)
C20_TrackerOrdered ==
    /\ \A i, j \in DOMAIN webio_expire :
          i < j => webio_expire[i].ts <= webio_expire[j].ts
    /\ (Handled /\ log.f.sweep.ran /\ log.f.sweep.inspected # <<>>) =>
          LET sw == log.f.sweep
              stop == sw.inspected[Len(sw.inspected)].at
          IN  /\ \A i, j \in DOMAIN sw.before :
                    i < j => sw.before[i].ts <= sw.before[j].ts
              /\ \A j \in DOMAIN sw.after :
                    stop - sw.after[j].ts < session_expire_seconds

(* Three records of two ages; the oldest has been through a sweep that put *)
(* it back.                                                                *)
C20_Witness ==
    /\ Len(webio_expire) = 3
    /\ webio_expire[1].ts < webio_expire[3].ts
    /\ last_check_session_expire_ts > webio_expire[1].ts

====
